---- MODULE Spec2Model ----
(***************************************************************************)
(* Model of scripts/stages.py: the per-bug stage timeline derived by       *)
(* get_events and the daily aggregation done by aggregate_events_by_day.   *)
(*                                                                         *)
(* Timestamps are ISO-8601 strings in the program; they are compared as    *)
(* strings (which is chronological order) and truncated to their first ten *)
(* characters to get the day.  Here a timestamp is a natural number of     *)
(* ticks and the day is the number of whole days it contains.              *)
(***************************************************************************)
EXTENDS Integers, Sequences, FiniteSets, TLC

\* ---------------------------------------------------------------- bounds
MaxTime == 2
TicksPerDay == 2
MaxHist == 2
MaxDeltas == 2
MaxBugs == 2

Times == 0..MaxTime
None == -1

\* ---------------------------------------------------------------- Stage
\* class Stage(Enum): auto() numbers the members 1, 2, ... in this order.
StageSeq ==
    << "NOTHING", "NO_COMPONENT", "UNCONFIRMED", "CONFIRMED", "PENDING_NEEDINFO",
       "ANSWERED_NEEDINFO", "TRIAGED", "ASSIGNED", "IN_REVIEW", "RESOLVED" >>

Stage == { StageSeq[k] : k \in 1..Len(StageSeq) }

\* Stage.value
Ord(s) == CHOOSE k \in 1..Len(StageSeq) : StageSeq[k] = s

\* Stage.__lt__
StageLt(a, b) == Ord(a) < Ord(b)

\* ---------------------------------------------------------------- helpers
\* x in list
Has(l, x) == \E p \in 1..Len(l) : l[p] = x

\* list.remove(x) dropping every occurrence.
ListRemoveEvery(l, x) == SelectSeq(l, LAMBDA e : e # x)

\* list.remove(x): drops the first occurrence (the caller checks Has first,
\* the program raises ValueError when there is none).
ListRemove(l, x) ==
    LET p == CHOOSE q \in 1..Len(l) : l[q] = x /\ \A r \in 1..(q - 1) : l[r] # x
    IN  SubSeq(l, 1, p - 1) \o SubSeq(l, p + 1, Len(l))

\* The strings a flagtypes.name change carries, and NI_PAT.findall on them:
\* the requestees of the needinfo?(...) tokens, in order; other flags match
\* nothing.
FlagTexts ==
    { "", "needinfo?(x)", "needinfo?(y)", "needinfo?(x), needinfo?(y)",
      "needinfo?(x), needinfo?(x)", "review?(x)" }

NI_PAT_findall(s) ==
    CASE s = "needinfo?(x)" -> << "x" >>
      [] s = "needinfo?(y)" -> << "y" >>
      [] s = "needinfo?(x), needinfo?(y)" -> << "x", "y" >>
      [] s = "needinfo?(x), needinfo?(x)" -> << "x", "x" >>
      [] OTHER -> << >>

\* Tuple comparison of Python, on (when, stage) candidates.
CandLess(a, b) ==
    \/ a[1] < b[1]
    \/ a[1] = b[1] /\ StageLt(a[2], b[2])

\* Tuple comparison of Python, on (when, stage, last_stage) events.
EventLess(a, b) ==
    \/ a[1] < b[1]
    \/ a[1] = b[1] /\ StageLt(a[2], b[2])
    \/ a[1] = b[1] /\ a[2] = b[2] /\ StageLt(a[3], b[3])

\* A comparison by timestamp alone.
TimeLess(a, b) == a[1] < b[1]

\* The order a sort uses: "candidates", "events" or "time".
Less(order, a, b) ==
    CASE order = "candidates" -> CandLess(a, b)
      [] order = "events" -> EventLess(a, b)
      [] order = "time" -> TimeLess(a, b)

\* Stable insertion of e into the sorted list l: after every element that is
\* not greater than e.
RECURSIVE InsertBy(_, _, _)
InsertBy(order, l, e) ==
    IF l = << >> THEN << e >>
    ELSE IF Less(order, e, l[1]) THEN << e >> \o l
    ELSE << l[1] >> \o InsertBy(order, Tail(l), e)

\* list.sort() under an order: stable.
RECURSIVE SortBy(_, _)
SortBy(order, l) ==
    IF l = << >> THEN << >>
    ELSE InsertBy(order, SortBy(order, SubSeq(l, 1, Len(l) - 1)), l[Len(l)])

\* ---------------------------------------------------------------- status
KnownStatus ==
    { "UNCONFIRMED", "NEW", "REOPENED", "ASSIGNED", "REVIEW", "RESOLVED",
      "VERIFIED", "CLOSED" }

\* status_to_stage raises ValueError exactly for the other strings.
StatusRaises(status) == status \notin KnownStatus

status_to_stage(status) ==
    CASE status = "UNCONFIRMED" -> "UNCONFIRMED"
      [] status \in { "NEW", "REOPENED" } -> "CONFIRMED"
      [] status = "ASSIGNED" -> "ASSIGNED"
      [] status = "REVIEW" -> "IN_REVIEW"
      [] status \in { "RESOLVED", "VERIFIED", "CLOSED" } -> "RESOLVED"

get_current_stage(bug) ==
    LET stage == status_to_stage(bug.status)
    IN  IF stage # "RESOLVED"
           /\ \E p \in 1..Len(bug.attachments) : bug.attachments[p].is_patch
        THEN "IN_REVIEW"
        ELSE IF stage # "RESOLVED" /\ bug.severity \notin { "n/a", "--" }
        THEN "TRIAGED"
        ELSE stage

\* ---------------------------------------------------------------- get_events, one bug
\* The locals of the loop body before the history is read (lines 76-89).
BugLocals(bug) ==
    [ bug_events |-> << >>,
      is_confirmed_after_open |-> FALSE,
      is_severity_changed |-> FALSE,
      is_moved_to_component_after_open |-> FALSE,
      current_needinfos |-> << >>,
      needinfo_events |-> << [ time |-> bug.creation_time, add |-> << >>, remove |-> << >> ] >>,
      raised |-> "" ]

\* The removal loop of the first pass without the except branch's compensation.
RECURSIVE RemoveNoCompensate(_, _)
RemoveNoCompensate(st, emails) ==
    IF emails = << >> THEN st
    ELSE IF Has(st.current_needinfos, emails[1])
    THEN RemoveNoCompensate(
            [ st EXCEPT !.current_needinfos = ListRemove(@, emails[1]) ],
            Tail(emails))
    ELSE RemoveNoCompensate(st, Tail(emails))

\* for email in removed_needinfos: remove it from current_needinfos, or, when
\* it is not there, append it to needinfo_events[0]["add"].
RECURSIVE RemoveOrCompensate(_, _)
RemoveOrCompensate(st, emails) ==
    IF emails = << >> THEN st
    ELSE IF Has(st.current_needinfos, emails[1])
    THEN RemoveOrCompensate(
            [ st EXCEPT !.current_needinfos = ListRemove(@, emails[1]) ],
            Tail(emails))
    ELSE RemoveOrCompensate(
            [ st EXCEPT !.needinfo_events[1].add = Append(@, emails[1]) ],
            Tail(emails))

\* The status branch with an unknown status skipped instead of raised.
StatusChangeSkipUnknown(st, ch) ==
    IF StatusRaises(ch.added)
    THEN st
    ELSE [ st EXCEPT
             !.bug_events = Append(@, << ch.when, status_to_stage(ch.added) >>),
             !.is_confirmed_after_open = @ \/ ch.removed = "UNCONFIRMED" ]

\* The status branch (lines 94-102): status_to_stage raises before anything
\* is appended.
StatusChange(st, ch) ==
    IF StatusRaises(ch.added)
    THEN [ st EXCEPT !.raised = "UnknownStatus" ]
    ELSE [ st EXCEPT
             !.bug_events = Append(@, << ch.when, status_to_stage(ch.added) >>),
             !.is_confirmed_after_open = @ \/ ch.removed = "UNCONFIRMED" ]

\* The component branch's guard (lines 114-117).
ComponentGuard(st, ch) ==
    /\ ~st.is_moved_to_component_after_open
    /\ ch.added # "Untriaged"

\* The component branch with the flag set and no candidate appended.
ComponentChangeNoCandidate(st, ch) ==
    IF ComponentGuard(st, ch)
    THEN [ st EXCEPT !.is_moved_to_component_after_open = TRUE ]
    ELSE st

\* The component branch (lines 113-120): the first change to a component
\* other than Untriaged sets the flag and appends an UNCONFIRMED candidate.
ComponentChange(st, ch) ==
    IF ComponentGuard(st, ch)
    THEN [ st EXCEPT
             !.is_moved_to_component_after_open = TRUE,
             !.bug_events = Append(@, << ch.when, "UNCONFIRMED" >>) ]
    ELSE st

\* One change of one history event (the body of the inner loop, lines 94-138).
\* An exception ends the pass: later changes are not read.
HistChange(st, ch) ==
    IF st.raised # "" THEN st
    ELSE IF ch.field_name = "status"
    THEN StatusChange(st, ch)
    ELSE IF ch.field_name = "severity"
    THEN IF ~st.is_severity_changed /\ ch.added \notin { "n/a", "--" }
         THEN [ st EXCEPT
                  !.is_severity_changed = TRUE,
                  !.bug_events = Append(@, << ch.when, "TRIAGED" >>) ]
         ELSE st
    ELSE IF ch.field_name = "component"
    THEN ComponentChange(st, ch)
    ELSE IF ch.field_name = "flagtypes.name"
    THEN LET removed_needinfos == NI_PAT_findall(ch.removed)
             added_needinfos == NI_PAT_findall(ch.added)
             st1 == [ st EXCEPT !.needinfo_events =
                        Append(@, [ time |-> ch.when,
                                    add |-> added_needinfos,
                                    remove |-> removed_needinfos ]) ]
             st2 == RemoveOrCompensate(st1, removed_needinfos)
         IN  [ st2 EXCEPT !.current_needinfos = @ \o added_needinfos ]
    ELSE st

\* for event in bug["history"]: for change in event["changes"] (lines 92-138).
\* The history is the flattened list of changes, each with its event's "when".
RECURSIVE HistoryLoop(_, _)
HistoryLoop(st, history) ==
    IF history = << >> THEN st
    ELSE HistoryLoop(HistChange(st, history[1]), Tail(history))

\* Lines 141-145: the standing needinfo flags whose requestee is not in
\* current_needinfos are added at the creation-time entry.
StandingFlags(bug, st) ==
    LET keep(flag) == flag.name = "needinfo"
                        /\ ~Has(st.current_needinfos, flag.requestee)
        kept == SelectSeq(bug.flags, keep)
    IN  [ q \in 1..Len(kept) |-> kept[q].requestee ]

AddStandingFlags(bug, st) ==
    [ st EXCEPT !.needinfo_events[1].add = @ \o StandingFlags(bug, st) ]

\* for email in event["remove"]: current_needinfos.remove(email) (lines 151-152);
\* "ValueError" when an email is not in the list.
RECURSIVE RemoveAll(_, _)
RemoveAll(cur, emails) ==
    IF emails = << >> THEN [ raised |-> "", cur |-> cur ]
    ELSE IF Has(cur, emails[1])
    THEN RemoveAll(ListRemove(cur, emails[1]), Tail(emails))
    ELSE [ raised |-> "ValueError", cur |-> cur ]

\* The replay testing the list once after the removals and once after the
\* additions of an entry.
RECURSIVE NeedinfoReplayEager(_, _)
NeedinfoReplayEager(rp, evs) ==
    IF evs = << >> \/ rp.raised # "" THEN rp
    ELSE LET event == evs[1]
             was_pending == Len(rp.current_needinfos) > 0
             rm == RemoveAll(rp.current_needinfos, event.remove)
             cur == rm.cur \o event.add
             answered == IF was_pending /\ Len(rm.cur) = 0
                         THEN << << event.time, "ANSWERED_NEEDINFO" >> >>
                         ELSE << >>
             pending == IF Len(rm.cur) = 0 /\ Len(cur) > 0
                        THEN << << event.time, "PENDING_NEEDINFO" >> >>
                        ELSE << >>
         IN  IF rm.raised # ""
             THEN [ rp EXCEPT !.raised = rm.raised ]
             ELSE NeedinfoReplayEager(
                     [ rp EXCEPT !.current_needinfos = cur,
                                 !.emitted = @ \o answered \o pending ],
                     Tail(evs))

\* Lines 148-169: the replay of needinfo_events from an empty list; rp holds
\* the list, the candidates emitted so far and the exception raised, if any.
RECURSIVE NeedinfoReplay(_, _)
NeedinfoReplay(rp, evs) ==
    IF evs = << >> \/ rp.raised # "" THEN rp
    ELSE LET event == evs[1]
             was_pending == Len(rp.current_needinfos) > 0
             rm == RemoveAll(rp.current_needinfos, event.remove)
             cur == rm.cur \o event.add
             out == IF was_pending /\ Len(cur) = 0
                    THEN << << event.time, "ANSWERED_NEEDINFO" >> >>
                    ELSE IF ~was_pending /\ Len(cur) > 0
                    THEN << << event.time, "PENDING_NEEDINFO" >> >>
                    ELSE << >>
         IN  IF rm.raised # ""
             THEN [ rp EXCEPT !.raised = rm.raised ]
             ELSE NeedinfoReplay(
                     [ rp EXCEPT !.current_needinfos = cur, !.emitted = @ \o out ],
                     Tail(evs))

NeedinfoCandidates(needinfo_events) ==
    NeedinfoReplay([ current_needinfos |-> << >>, emitted |-> << >>, raised |-> "" ],
                   needinfo_events)

\* The scan of the attachments keeping the latest patch.
RECURSIVE LastPatchAt(_, _)
LastPatchAt(first_patch_at, attachments) ==
    IF attachments = << >> THEN first_patch_at
    ELSE LET attachment == attachments[1]
         IN  IF ~attachment.is_patch
             THEN LastPatchAt(first_patch_at, Tail(attachments))
             ELSE IF first_patch_at = None \/ attachment.creation_time > first_patch_at
             THEN LastPatchAt(attachment.creation_time, Tail(attachments))
             ELSE LastPatchAt(first_patch_at, Tail(attachments))

\* Lines 172-176: the earliest creation time among the patches, None without one.
RECURSIVE FirstPatchAt(_, _)
FirstPatchAt(first_patch_at, attachments) ==
    IF attachments = << >> THEN first_patch_at
    ELSE LET attachment == attachments[1]
         IN  IF ~attachment.is_patch
             THEN FirstPatchAt(first_patch_at, Tail(attachments))
             ELSE IF first_patch_at = None \/ attachment.creation_time < first_patch_at
             THEN FirstPatchAt(attachment.creation_time, Tail(attachments))
             ELSE FirstPatchAt(first_patch_at, Tail(attachments))

\* Lines 177-178.
PatchCandidates(bug) ==
    LET first_patch_at == FirstPatchAt(None, bug.attachments)
    IN  IF first_patch_at # None THEN << << first_patch_at, "IN_REVIEW" >> >> ELSE << >>

\* The creation stage read from the current status alone.
CreationStageCurrentOnly(bug, st) ==
    IF st.is_moved_to_component_after_open \/ bug.component = "Untriaged"
    THEN "NO_COMPONENT"
    ELSE IF bug.status = "UNCONFIRMED"
    THEN "UNCONFIRMED"
    ELSE "CONFIRMED"

\* Lines 180-200: the stage stamped with the creation time.
CreationStage(bug, st) ==
    IF st.is_moved_to_component_after_open \/ bug.component = "Untriaged"
    THEN "NO_COMPONENT"
    ELSE IF st.is_confirmed_after_open \/ bug.status = "UNCONFIRMED"
    THEN "UNCONFIRMED"
    ELSE "CONFIRMED"

\* The for loop of lines 205-212 with no ordinal test: every candidate is committed.
RECURSIVE FoldAll(_, _)
FoldAll(acc, cands) ==
    IF cands = << >> THEN acc
    ELSE FoldAll([ last_stage |-> cands[1][2],
                   committed |-> Append(acc.committed,
                                        << cands[1][1], cands[1][2], acc.last_stage >>) ],
                 Tail(cands))

\* The for loop of lines 205-212 without last_stage = stage (line 212).
RECURSIVE FoldNoUpdate(_, _)
FoldNoUpdate(acc, cands) ==
    IF cands = << >> THEN acc
    ELSE LET when == cands[1][1]
             stage == cands[1][2]
         IN  IF \/ StageLt(acc.last_stage, stage)
                \/ stage = "PENDING_NEEDINFO" /\ acc.last_stage = "ANSWERED_NEEDINFO"
             THEN FoldNoUpdate([ last_stage |-> acc.last_stage,
                                 committed |-> Append(acc.committed,
                                                      << when, stage, acc.last_stage >>) ],
                               Tail(cands))
             ELSE FoldNoUpdate(acc, Tail(cands))

\* The for loop of lines 205-212 with PENDING_NEEDINFO committed after any stage.
RECURSIVE FoldReentryAny(_, _)
FoldReentryAny(acc, cands) ==
    IF cands = << >> THEN acc
    ELSE LET when == cands[1][1]
             stage == cands[1][2]
         IN  IF \/ StageLt(acc.last_stage, stage)
                \/ stage = "PENDING_NEEDINFO"
             THEN FoldReentryAny([ last_stage |-> stage,
                                   committed |-> Append(acc.committed,
                                                        << when, stage, acc.last_stage >>) ],
                                 Tail(cands))
             ELSE FoldReentryAny(acc, Tail(cands))

\* Lines 204-212: the fold of the sorted candidates; a candidate is committed
\* when stage > last_stage, or it is PENDING_NEEDINFO after ANSWERED_NEEDINFO.
RECURSIVE Fold(_, _)
Fold(acc, cands) ==
    IF cands = << >> THEN acc
    ELSE LET when == cands[1][1]
             stage == cands[1][2]
         IN  IF \/ StageLt(acc.last_stage, stage)
                \/ stage = "PENDING_NEEDINFO" /\ acc.last_stage = "ANSWERED_NEEDINFO"
             THEN Fold([ last_stage |-> stage,
                         committed |-> Append(acc.committed,
                                              << when, stage, acc.last_stage >>) ],
                       Tail(cands))
             ELSE Fold(acc, Tail(cands))

\* bug_events.sort() with the tie on the timestamp left in append order.
SortByTimeOnly(cands) == SortBy("time", cands)

\* bug_events.sort() (line 203): tuples compare by timestamp, then by Stage.
SortCandidates(cands) == SortBy("candidates", cands)

\* events.sort() with the tie on the timestamp left in append order.
SortEventsByTimeOnly(evs) == SortBy("time", evs)

\* events.sort(reverse=True).
SortEventsDescending(evs) ==
    LET sorted == SortBy("events", evs)
    IN  [ p \in 1..Len(sorted) |-> sorted[Len(sorted) + 1 - p] ]

\* events.sort() (line 217): tuples compare by timestamp, stage, last_stage.
SortEvents(evs) == SortBy("events", evs)

\* The test of line 214 with "or" for "and".
ConsistencyRaisesEither(final_stage, bug) ==
    final_stage = "NO_COMPONENT" \/ bug.component # "Untriaged"

\* Line 214: the bug ends in NO_COMPONENT and has a component.
ConsistencyRaises(final_stage, bug) ==
    final_stage = "NO_COMPONENT" /\ bug.component # "Untriaged"

\* The loop body for one bug that the filter keeps (lines 76-215):
\* what it leaves in its locals, what it appends to events, what it raises.
BugBody(bug) ==
    LET st0 == HistoryLoop(BugLocals(bug), bug.history)
        st1 == AddStandingFlags(bug, st0)
        ni == NeedinfoCandidates(st1.needinfo_events)
        appended == st1.bug_events \o ni.emitted \o PatchCandidates(bug)
                      \o << << bug.creation_time, CreationStage(bug, st1) >> >>
        sorted == SortCandidates(appended)
        folded == Fold([ last_stage |-> "NOTHING", committed |-> << >> ], sorted)
        raised == IF st0.raised # "" THEN st0.raised
                  ELSE IF ni.raised # "" THEN ni.raised
                  ELSE IF ConsistencyRaises(folded.last_stage, bug)
                  THEN "Exception"
                  ELSE ""
    IN  [ raised |-> raised,
          needinfo_events |-> st1.needinfo_events,
          appended |-> IF st0.raised # "" THEN st0.bug_events
                       ELSE IF ni.raised # "" THEN st1.bug_events \o ni.emitted
                       ELSE appended,
          bug_events |-> IF st0.raised # "" \/ ni.raised # "" THEN << >> ELSE sorted,
          committed |-> IF st0.raised # "" \/ ni.raised # "" THEN << >> ELSE folded.committed,
          last_stage |-> IF st0.raised # "" \/ ni.raised # "" THEN "NOTHING"
                         ELSE folded.last_stage ]

\* ---------------------------------------------------------------- aggregate_events_by_day
\* when[:10]
Day(when) == when \div TicksPerDay

\* Lines 226-232: the counters, the output lists and last_day = "" (below every day).
ZeroCounts == [ stage \in Stage |-> 0 ]
NoSnapshots == [ stage \in Stage |-> << >> ]
NoDay == -1

\* Lines 242-243 with the decrement of last_stage left out.
ApplyNoDecrement(counts, ev) ==
    [ counts EXCEPT ![ev[2]] = @ + 1 ]

\* Lines 242-243: day_status[stage] += 1; day_status[last_stage] -= 1.
ApplyEvent(counts, ev) ==
    [ [ counts EXCEPT ![ev[2]] = @ + 1 ] EXCEPT ![ev[3]] = @ - 1 ]

\* Line 235 with the snapshot taken on every event.
AlwaysNewDay(day, last) == TRUE

\* Line 235 with >= for >.
SameOrNewDay(day, last) == day >= last

\* Line 235: day > last_day.
IsNewDay(day, last) == day > last

\* ---------------------------------------------------------------- inputs
Change(when, field_name, removed, added) ==
    [ when |-> when, field_name |-> field_name, removed |-> removed, added |-> added ]

Bug(excluded, creation_time, component, status, history, attachments, flags) ==
    [ excluded |-> excluded, creation_time |-> creation_time, component |-> component,
      status |-> status, severity |-> "--", history |-> history,
      attachments |-> attachments, flags |-> flags ]

Patch(t) == [ is_patch |-> TRUE, creation_time |-> t ]
Plain(t) == [ is_patch |-> FALSE, creation_time |-> t ]
Needinfo(who) == [ name |-> "needinfo", requestee |-> who ]

\* Histories are chronological: at most n changes with non-decreasing "when".
ChronoSeqs(changes, n) ==
    UNION { { h \in [ 1..m -> changes ] :
                \A p \in 1..m : \A q \in p..m : h[p].when <= h[q].when } : m \in 0..n }

\* Bugs of the many-bug runs: created at any time, with at most one status
\* change (to RESOLVED, or to a status the tracker does not define); the
\* excluded ones differ in their current status.
PipelineChanges(t0) ==
    { Change(t, "status", "NEW", added) : t \in t0..MaxTime, added \in { "RESOLVED", "BOGUS" } }

PipelineBugs ==
    UNION { { Bug(FALSE, t0, "A", "NEW", h, << >>, << >>) :
                h \in ChronoSeqs(PipelineChanges(t0), 1) } : t0 \in Times }
    \cup { Bug(TRUE, 0, "A", status, << >>, << >>, << >>) : status \in { "NEW", "RESOLVED" } }

\* Bugs of the one-bug runs that exercise the timeline: status, severity,
\* component and flag changes, with and without patches.
TimelineChanges ==
    UNION { { Change(t, "status", "UNCONFIRMED", "NEW"),
              Change(t, "status", "NEW", "RESOLVED"),
              Change(t, "status", "RESOLVED", "REOPENED"),
              Change(t, "status", "NEW", "ASSIGNED"),
              Change(t, "severity", "--", "S2"),
              Change(t, "severity", "S2", "--"),
              Change(t, "component", "Untriaged", "A"),
              Change(t, "component", "B", "A"),
              Change(t, "component", "A", "Untriaged"),
              Change(t, "flagtypes.name", "", "needinfo?(x)"),
              Change(t, "flagtypes.name", "needinfo?(x)", "") } : t \in Times }

TimelineBugs ==
    { Bug(FALSE, 0, cs[1], cs[2], h, cs[3], << >>) :
        cs \in { << "Untriaged", "NEW", << >> >>,
                 << "A", "NEW", << >> >>,
                 << "A", "UNCONFIRMED", << >> >>,
                 << "A", "NEW", << Plain(0), Patch(MaxTime), Patch(1) >> >> },
        h \in ChronoSeqs(TimelineChanges, MaxHist) }

\* Bugs of the one-bug runs that exercise the needinfo replay: flag deltas
\* only, with standing flags.
NeedinfoChanges ==
    UNION { { Change(t, "flagtypes.name", "", "needinfo?(x)"),
              Change(t, "flagtypes.name", "needinfo?(x)", ""),
              Change(t, "flagtypes.name", "", "needinfo?(y)"),
              Change(t, "flagtypes.name", "needinfo?(y)", ""),
              Change(t, "flagtypes.name", "needinfo?(x)", "needinfo?(y)"),
              Change(t, "flagtypes.name", "needinfo?(x), needinfo?(x)", "review?(x)"),
              Change(t, "flagtypes.name", "review?(x)", "needinfo?(x), needinfo?(y)") }
            : t \in Times }

NeedinfoBugs ==
    { Bug(FALSE, 0, "A", "NEW", h, << >>, flags) :
        h \in ChronoSeqs(NeedinfoChanges, MaxDeltas),
        flags \in { << >>, << Needinfo("x") >>,
                    << [ name |-> "review", requestee |-> "y" ], Needinfo("y") >> } }

\* Bugs of the one-bug runs that walk a whole life: created at 0, severity
\* set, patches attached, resolved, at three later times in this order.
ReviewedBugs ==
    { Bug(FALSE, 0, component, "RESOLVED",
          << Change(ts[1], "severity", "--", "S2"),
             Change(ts[3], "status", removed, "RESOLVED") >>,
          << Plain(0), Patch(ts[3]), Patch(ts[2]) >>, << >>) :
        component \in { "A", "Untriaged" },
        removed \in { "UNCONFIRMED", "NEW" },
        ts \in { ts \in [ 1..3 -> 1..(MaxTime + 1) ] : ts[1] < ts[2] /\ ts[2] < ts[3] } }

\* Bugs of the one-bug runs that are resolved straight from UNCONFIRMED.
ResolvedUnconfirmedBugs ==
    { Bug(FALSE, t0, component, "RESOLVED",
          << Change(t, "status", "UNCONFIRMED", "RESOLVED") >>, << >>, << >>) :
        component \in { "A", "Untriaged" },
        t0 \in { 0, 1 }, t \in 1..MaxTime }

\* bugzilla.get_bugs(): one bug of any kind, or up to MaxBugs pipeline bugs.
BugLists ==
    { << b >> : b \in TimelineBugs \cup NeedinfoBugs \cup ReviewedBugs
                        \cup ResolvedUnconfirmedBugs }
    \cup UNION { [ 1..m -> PipelineBugs ] : m \in 1..MaxBugs }

\* ---------------------------------------------------------------- state
VARIABLES
    bugs,             \* bugzilla.get_bugs()
    pc,               \* where the script is
    i,                \* the bug the loop of get_events takes next
    events,           \* get_events: events
    appended,         \* events as it was before events.sort()
    bug_events,       \* the last bug's candidates, after bug_events.sort()
    needinfo_events,  \* the last bug's needinfo_events
    committed,        \* what the last bug appended to events
    last_stage,       \* the last bug's last_stage
    raised,           \* the exception that ended the script, "" for none
    k,                \* the event the loop of aggregate_events_by_day is at
    day_status, last_day, dates, status_by_day,
    run,              \* 1 in the first run of the two functions, 2 in the second
    first             \* what the first run returned, once the second has begun

vars ==
    << bugs, pc, i, events, appended, bug_events, needinfo_events, committed,
       last_stage, raised, k, day_status, last_day, dates, status_by_day,
       run, first >>

aggVars == << k, day_status, last_day, dates, status_by_day >>
bugVars == << bug_events, needinfo_events, committed, last_stage >>
runVars == << run, first >>

\* The list get_events starts from, were events kept from one call to the next.
KeptEvents(old) == old

\* Line 70: events = [], whatever an earlier call left in its own events.
NewEvents(old) == << >>

Init ==
    /\ bugs \in BugLists
    /\ pc = "get_events"
    /\ i = 1
    /\ events = << >>
    /\ appended = << >>
    /\ bug_events = << >>
    /\ needinfo_events = << >>
    /\ committed = << >>
    /\ last_stage = "NOTHING"
    /\ raised = ""
    /\ k = 1
    /\ day_status = ZeroCounts
    /\ last_day = NoDay
    /\ dates = << >>
    /\ status_by_day = NoSnapshots
    /\ run = 1
    /\ first = [ events |-> << >>, dates |-> << >>, status_by_day |-> NoSnapshots ]

\* filter_func(bug): the caller's predicate; its answer is part of the input.
filter_func(bug) == bug.excluded

\* Lines 73-74: the filter excludes the bug; nothing else is done with it.
FilterSkip ==
    /\ pc = "get_events"
    /\ i <= Len(bugs)
    /\ filter_func(bugs[i])
    /\ i' = i + 1
    /\ UNCHANGED << bugs, pc, events, appended, raised >>
    /\ UNCHANGED bugVars
    /\ UNCHANGED aggVars
    /\ UNCHANGED runVars

\* Lines 76-215 for a bug that raises nothing.
ProcessBug ==
    /\ pc = "get_events"
    /\ i <= Len(bugs)
    /\ ~filter_func(bugs[i])
    /\ LET body == BugBody(bugs[i])
       IN  /\ body.raised = ""
           /\ events' = events \o body.committed
           /\ bug_events' = body.bug_events
           /\ needinfo_events' = body.needinfo_events
           /\ committed' = body.committed
           /\ last_stage' = body.last_stage
    /\ i' = i + 1
    /\ UNCHANGED << bugs, pc, appended, raised >>
    /\ UNCHANGED aggVars
    /\ UNCHANGED runVars

\* Lines 76-215 for a bug in which an exception is raised: nothing catches
\* it, get_events returns nothing and the script ends.
RaiseInBug ==
    /\ pc = "get_events"
    /\ i <= Len(bugs)
    /\ ~filter_func(bugs[i])
    /\ LET body == BugBody(bugs[i])
       IN  /\ body.raised # ""
           /\ raised' = body.raised
           /\ events' = events \o body.committed
           /\ bug_events' = body.bug_events
           /\ needinfo_events' = body.needinfo_events
           /\ committed' = body.committed
           /\ last_stage' = body.last_stage
    /\ i' = i + 1
    /\ pc' = "raised"
    /\ UNCHANGED << bugs, appended >>
    /\ UNCHANGED aggVars
    /\ UNCHANGED runVars

\* Lines 217-218: events.sort(); return events.
SortAndReturn ==
    /\ pc = "get_events"
    /\ i > Len(bugs)
    /\ appended' = events
    /\ events' = SortEvents(events)
    /\ pc' = "returned"
    /\ UNCHANGED << bugs, i, raised >>
    /\ UNCHANGED bugVars
    /\ UNCHANGED aggVars
    /\ UNCHANGED runVars

\* Lines 226-232: aggregate_events_by_day(events) sets up its counters.
AggregateBegin ==
    /\ pc = "returned"
    /\ k' = 1
    /\ day_status' = ZeroCounts
    /\ last_day' = NoDay
    /\ dates' = << >>
    /\ status_by_day' = NoSnapshots
    /\ pc' = "aggregate"
    /\ UNCHANGED << bugs, i, events, appended, raised >>
    /\ UNCHANGED bugVars
    /\ UNCHANGED runVars

\* Lines 233-243: one event of the stream.
AggregateEvent ==
    /\ pc = "aggregate"
    /\ k <= Len(events)
    /\ LET day == Day(events[k][1])
       IN  IF IsNewDay(day, last_day)
           THEN /\ last_day' = day
                /\ dates' = Append(dates, day)
                /\ status_by_day' =
                     [ stage \in Stage |-> Append(status_by_day[stage], day_status[stage]) ]
           ELSE UNCHANGED << last_day, dates, status_by_day >>
    /\ day_status' = ApplyEvent(day_status, events[k])
    /\ k' = k + 1
    /\ UNCHANGED << bugs, pc, i, events, appended, raised >>
    /\ UNCHANGED bugVars
    /\ UNCHANGED runVars

\* Line 245: return status_by_day, dates.
AggregateReturn ==
    /\ pc = "aggregate"
    /\ k > Len(events)
    /\ pc' = "done"
    /\ UNCHANGED << bugs, i, events, appended, raised >>
    /\ UNCHANGED bugVars
    /\ UNCHANGED aggVars
    /\ UNCHANGED runVars

Next ==
    \/ FilterSkip
    \/ ProcessBug
    \/ RaiseInBug
    \/ SortAndReturn
    \/ AggregateBegin
    \/ AggregateEvent
    \/ AggregateReturn

Spec == Init /\ [][Next]_vars

\* The two calls of lines 287-288 made once more on the same bugs with the
\* same filter: get_events starts from a new list and from the first bug;
\* aggregate_events_by_day sets its counters up itself (AggregateBegin).
RunAgain ==
    /\ pc = "done"
    /\ run = 1
    /\ run' = 2
    /\ first' = [ events |-> events, dates |-> dates, status_by_day |-> status_by_day ]
    /\ pc' = "get_events"
    /\ i' = 1
    /\ events' = NewEvents(events)
    /\ appended' = << >>
    /\ bug_events' = << >>
    /\ needinfo_events' = << >>
    /\ committed' = << >>
    /\ last_stage' = "NOTHING"
    /\ UNCHANGED << bugs, raised >>
    /\ UNCHANGED aggVars

\* The runs that are made twice: up to MaxBugs pipeline bugs, or one bug with
\* a whole life or with needinfo flags and at most one flag delta.
TwiceBugLists ==
    { l \in BugLists :
        \/ l[1] \in PipelineBugs \cup ReviewedBugs \cup ResolvedUnconfirmedBugs
        \/ l[1] \in NeedinfoBugs /\ Len(l[1].history) <= 1 }

InitTwice == Init /\ bugs \in TwiceBugLists

NextTwice == Next \/ RunAgain

SpecTwice == InitTwice /\ [][NextTwice]_vars

\* ---------------------------------------------------------------- properties
\* The bug the loop has taken last, when the filter kept it: its locals are
\* the ones in bug_events, needinfo_events, committed and last_stage.
TookBug == pc \in { "get_events", "raised" } /\ i > 1 /\ ~filter_func(bugs[i - 1])
TakenBug == bugs[i - 1]
Returned == pc \in { "returned", "aggregate", "done" }

\* C1: the ordinals of a bug's committed transitions, in commit order, never
\* decrease, except that PENDING_NEEDINFO may directly follow ANSWERED_NEEDINFO.
C1_OrdinalsNonDecreasing ==
    \A p \in 1..(Len(committed) - 1) :
        \/ Ord(committed[p][2]) <= Ord(committed[p + 1][2])
        \/ committed[p][2] = "ANSWERED_NEEDINFO" /\ committed[p + 1][2] = "PENDING_NEEDINFO"

\* A bug that was asked again after an answer, and went on to a later stage.
C1_Witness ==
    /\ TookBug
    /\ \E p \in 1..(Len(committed) - 2) :
          /\ committed[p][2] = "ANSWERED_NEEDINFO"
          /\ committed[p + 1][2] = "PENDING_NEEDINFO"
          /\ Ord(committed[p + 2][2]) > Ord("PENDING_NEEDINFO")

\* The sum of the counts of snapshot j over all stages, NOTHING included.
RECURSIVE SnapshotSum(_, _)
SnapshotSum(j, n) ==
    IF n = 0 THEN 0 ELSE status_by_day[StageSeq[n]][j] + SnapshotSum(j, n - 1)

NumExcluded == Cardinality({ j \in 1..Len(bugs) : filter_func(bugs[j]) })
NumDerived == Cardinality({ j \in 1..Len(bugs) : ~filter_func(bugs[j]) })

\* C2 as claimed: in every snapshot the counts of all stages (NOTHING
\* included) add up to the number of records fed in, excluded plus derived.
C2_SumIsRecordCount ==
    \A j \in 1..Len(dates) : SnapshotSum(j, Len(StageSeq)) = NumExcluded + NumDerived

\* C2 as amended: in every snapshot the counts of all stages (NOTHING
\* included) add up to 0: the counters start at 0 and every event adds one to
\* a stage and takes one from another, so the total is constant, but it is
\* not the number of records.
C2_SumIsZero ==
    \A j \in 1..Len(dates) : SnapshotSum(j, Len(StageSeq)) = 0

\* Two snapshots, the second with bugs in it, from excluded and derived bugs.
C2_Witness ==
    /\ pc = "done"
    /\ Len(dates) >= 2
    /\ NumExcluded > 0
    /\ NumDerived > 0
    /\ \E stage \in Stage \ { "NOTHING" } : status_by_day[stage][2] > 0

\* The events of the stream before day d (strict) or up to its end: how many
\* went into stage s less how many left it.
Tally(s, d, strict) ==
    LET counted == { p \in 1..Len(events) :
                        IF strict THEN Day(events[p][1]) < d ELSE Day(events[p][1]) <= d }
    IN  Cardinality({ p \in counted : events[p][2] = s })
          - Cardinality({ p \in counted : events[p][3] = s })

\* C3 as claimed: the counts recorded for a date are the counters after every
\* event of that day and of the earlier days.
C3_CountsAtCloseOfDay ==
    pc \in { "aggregate", "done" } =>
        \A j \in 1..Len(dates) : \A s \in Stage :
            status_by_day[s][j] = Tally(s, dates[j], FALSE)

\* C3 as amended: the counts recorded for a date are the counters before the
\* first event of that day, that is after every event of the earlier days
\* and none of that day's.
C3_CountsAtStartOfDay ==
    pc \in { "aggregate", "done" } =>
        \A j \in 1..Len(dates) : \A s \in Stage :
            status_by_day[s][j] = Tally(s, dates[j], TRUE)

\* A second day's snapshot that its own events would have changed.
C3_Witness ==
    /\ pc = "done"
    /\ Len(dates) >= 2
    /\ \E s \in Stage \ { "NOTHING" } :
          /\ status_by_day[s][2] > 0
          /\ Tally(s, dates[2], FALSE) # Tally(s, dates[2], TRUE)

\* C4: before the first event is applied, the counter of each stage is the
\* number of excluded records whose current stage it is.
C4_SeededFromExcluded ==
    (pc = "aggregate" /\ k = 1) =>
        \A s \in Stage :
            day_status[s] =
                Cardinality({ j \in 1..Len(bugs) :
                                filter_func(bugs[j]) /\ get_current_stage(bugs[j]) = s })

\* The candidates one field of the history gives, in history order.
FieldCandidates(bug, field) ==
    HistoryLoop(BugLocals(bug),
                SelectSeq(bug.history, LAMBDA ch : ch.field_name = field)).bug_events

\* The candidate stamped with the creation time: the one appended last.
CreationCandidate(bug) ==
    LET a == BugBody(bug).appended IN a[Len(a)]

\* The fold order C5 claims: the candidates listed by source (status,
\* severity, component, patch, needinfo, creation last), stably sorted by
\* timestamp alone.
ClaimedFoldOrder(bug) ==
    SortBy("time",
           FieldCandidates(bug, "status") \o FieldCandidates(bug, "severity")
             \o FieldCandidates(bug, "component") \o PatchCandidates(bug)
             \o NeedinfoCandidates(BugBody(bug).needinfo_events).emitted
             \o << CreationCandidate(bug) >>)

\* a and b hold the same elements the same number of times.
IsPermutation(a, b) ==
    /\ Len(a) = Len(b)
    /\ \A p \in 1..Len(a) :
          Cardinality({ q \in 1..Len(a) : a[q] = a[p] })
            = Cardinality({ q \in 1..Len(b) : b[q] = a[p] })

\* C5 as claimed: the candidates of a bug are folded in source order within
\* one timestamp, whatever the ordinals of their stages.
C5_TiesInSourceOrder ==
    (TookBug /\ raised = "") => bug_events = ClaimedFoldOrder(TakenBug)

\* C5 as amended: the candidates of a bug are folded in the order of their
\* timestamps and, within one timestamp, in the order of their stages'
\* ordinals, whatever their sources.
C5_TiesInOrdinalOrder ==
    (TookBug /\ raised = "") =>
        /\ IsPermutation(bug_events, BugBody(TakenBug).appended)
        /\ \A p \in 1..(Len(bug_events) - 1) :
              \/ bug_events[p][1] < bug_events[p + 1][1]
              \/ /\ bug_events[p][1] = bug_events[p + 1][1]
                 /\ Ord(bug_events[p][2]) <= Ord(bug_events[p + 1][2])

\* Two candidates of one timestamp that were appended in the other order.
C5_Witness ==
    /\ TookBug
    /\ raised = ""
    /\ bug_events # ClaimedFoldOrder(TakenBug)
    /\ bug_events # SortBy("time", BugBody(TakenBug).appended)

\* x is a subsequence of y.
RECURSIVE IsSubsequence(_, _)
IsSubsequence(x, y) ==
    IF x = << >> THEN TRUE
    ELSE IF y = << >> THEN FALSE
    ELSE IF x[1] = y[1] THEN IsSubsequence(Tail(x), Tail(y))
    ELSE IsSubsequence(x, Tail(y))

\* C6 as claimed: the stream is the concatenation of the bugs' transitions
\* stably sorted by timestamp alone.
C6_StableByTimestamp ==
    Returned => events = SortBy("time", appended)

\* C6 as amended: the stream is the concatenation of the bugs' transitions
\* sorted by timestamp, then stage ordinal, then previous stage ordinal:
\* transitions of one timestamp are ordered by their stages, from whichever
\* bugs they come, and each bug's own transitions keep their order.
C6_SortedByTimestampThenStage ==
    Returned =>
        /\ IsPermutation(events, appended)
        /\ \A p \in 1..(Len(events) - 1) :
              \/ events[p][1] < events[p + 1][1]
              \/ /\ events[p][1] = events[p + 1][1]
                 /\ Ord(events[p][2]) < Ord(events[p + 1][2])
              \/ /\ events[p][1] = events[p + 1][1]
                 /\ events[p][2] = events[p + 1][2]
                 /\ Ord(events[p][3]) <= Ord(events[p + 1][3])
        /\ \A j \in 1..Len(bugs) :
              ~filter_func(bugs[j]) => IsSubsequence(BugBody(bugs[j]).committed, events)

\* Transitions of two bugs at one timestamp that the sort has swapped.
C6_Witness ==
    /\ Returned
    /\ NumDerived > 1
    /\ events # SortBy("time", appended)

\* The creation stage C7 claims.
ClaimedCreationStage(bug) ==
    IF \/ \E p \in 1..Len(bug.history) :
             /\ bug.history[p].field_name = "component"
             /\ bug.history[p].removed = "Untriaged"
             /\ bug.history[p].added # "Untriaged"
       \/ bug.component = "Untriaged"
    THEN "NO_COMPONENT"
    ELSE IF \/ \E p \in 1..Len(bug.history) :
                  /\ bug.history[p].field_name = "status"
                  /\ bug.history[p].removed = "UNCONFIRMED"
            \/ bug.status = "UNCONFIRMED"
    THEN "UNCONFIRMED"
    ELSE "CONFIRMED"

\* C7: the creation candidate is NO_COMPONENT exactly when the bug was moved
\* out of Untriaged or is in it now, else UNCONFIRMED exactly when a status
\* change left UNCONFIRMED or the status is UNCONFIRMED now, else CONFIRMED.
C7_CreationRule ==
    (TookBug /\ raised = "") =>
        CreationCandidate(TakenBug)[2] = ClaimedCreationStage(TakenBug)

\* The needinfo request of x was made with no history entry and is removed
\* at T: the history's only flag change removes needinfo?(x) at T, and no
\* candidate at or before T is above the needinfo stages.
C8_RemovalOnly(bug, T) ==
    /\ \E p \in 1..Len(bug.history) :
          /\ bug.history[p] = Change(T, "flagtypes.name", "needinfo?(x)", "")
          /\ \A q \in 1..Len(bug.history) :
                bug.history[q].field_name = "flagtypes.name" => q = p
    /\ \A p \in 1..Len(bug_events) :
          bug_events[p][1] <= T => Ord(bug_events[p][2]) <= Ord("ANSWERED_NEEDINFO")

\* PENDING_NEEDINFO is committed at the creation time and ANSWERED_NEEDINFO
\* right after it, at T.
C8_PendingThenAnswered(bug, T) ==
    \E p \in 1..(Len(committed) - 1) :
        /\ committed[p][1] = bug.creation_time
        /\ committed[p][2] = "PENDING_NEEDINFO"
        /\ committed[p + 1] = << T, "ANSWERED_NEEDINFO", "PENDING_NEEDINFO" >>

HasStandingNeedinfo(bug, who) ==
    \E p \in 1..Len(bug.flags) : bug.flags[p] = Needinfo(who)

HasNoStandingNeedinfo(bug) ==
    \A p \in 1..Len(bug.flags) : bug.flags[p].name # "needinfo"

\* C8 as claimed: with a needinfo flag for x standing at fetch time, the
\* removal at T gives PENDING_NEEDINFO at creation, then ANSWERED_NEEDINFO at T.
C8_StandingFlagThenRemoval ==
    TookBug =>
        \A T \in Times :
            (C8_RemovalOnly(TakenBug, T) /\ HasStandingNeedinfo(TakenBug, "x")) =>
                (raised = "" /\ C8_PendingThenAnswered(TakenBug, T))

\* C8 as amended: with no needinfo flag standing at fetch time, the removal
\* at T of a request that no history entry added gives PENDING_NEEDINFO at
\* creation, then ANSWERED_NEEDINFO at T.  (With the flag for x standing as
\* well, x is pending twice from creation and the removal answers nothing.)
C8_RemovalOfCreationRequest ==
    TookBug =>
        \A T \in Times :
            (C8_RemovalOnly(TakenBug, T) /\ HasNoStandingNeedinfo(TakenBug)) =>
                (raised = "" /\ C8_PendingThenAnswered(TakenBug, T))

\* Such a bug, with a lower candidate discarded after the answer.
C8_Witness ==
    /\ TookBug
    /\ raised = ""
    /\ HasNoStandingNeedinfo(TakenBug)
    /\ \E T \in Times \ { 0 } :
          C8_RemovalOnly(TakenBug, T) /\ C8_PendingThenAnswered(TakenBug, T)
    /\ Len(committed) = 3
    /\ Len(bug_events) > 3

\* C9: the replay of the needinfo events never raises: every removal finds
\* its identity in the list.
C9_ReplayNeverRaises ==
    /\ raised # "ValueError"
    /\ TookBug => NeedinfoCandidates(needinfo_events).raised = ""

\* A removal of an identity twice over, neither with an open request, in a
\* bug without standing flags: both were compensated at the creation entry.
C9_Witness ==
    /\ TookBug
    /\ raised = ""
    /\ TakenBug.flags = << >>
    /\ Len(needinfo_events) >= 3
    /\ Len(needinfo_events[1].add) >= 2
    /\ needinfo_events[1].add[1] = needinfo_events[1].add[2]

\* A status change of the bug's history to a status outside the known ones.
HasUnknownStatusChange(bug) ==
    \E p \in 1..Len(bug.history) :
        /\ bug.history[p].field_name = "status"
        /\ bug.history[p].added \notin
             { "UNCONFIRMED", "NEW", "REOPENED", "ASSIGNED", "REVIEW", "RESOLVED",
               "VERIFIED", "CLOSED" }

\* C10: once the loop has taken a kept bug with a status change to an unknown
\* status, get_events has stopped with the UnknownStatus fault: it has
\* returned nothing and no snapshot exists.
C10_UnknownStatusStopsTheRun ==
    \A j \in 1..(i - 1) :
        (~filter_func(bugs[j]) /\ HasUnknownStatusChange(bugs[j])) =>
            /\ pc = "raised"
            /\ raised = "UnknownStatus"
            /\ j = i - 1
            /\ appended = << >>
            /\ dates = << >>
            /\ \A s \in Stage : status_by_day[s] = << >>

\* The second bug raises after the first one's transitions were collected.
C10_Witness ==
    /\ pc = "raised"
    /\ raised = "UnknownStatus"
    /\ i = 3
    /\ Len(events) > 0

\* C11: a bug whose final stage is NO_COMPONENT while its component is not
\* Untriaged stops get_events with the exception of line 215, and that
\* exception is raised for no other bug; so a bug that get_events finishes
\* in NO_COMPONENT has the component Untriaged.
C11_NoComponentIsConsistent ==
    TookBug =>
        /\ raised = "Exception" <=>
              (last_stage = "NO_COMPONENT" /\ TakenBug.component # "Untriaged")
        /\ (raised = "" /\ last_stage = "NO_COMPONENT") => TakenBug.component = "Untriaged"

\* A bug with history that was finished in NO_COMPONENT.
C11_Witness ==
    /\ TookBug
    /\ raised = ""
    /\ last_stage = "NO_COMPONENT"
    /\ TakenBug.component = "Untriaged"
    /\ Len(TakenBug.history) > 0

\* The creation times of the patches of the bug.
PatchTimes(bug) ==
    { bug.attachments[p].creation_time :
        p \in { q \in 1..Len(bug.attachments) : bug.attachments[q].is_patch } }

\* The bug of C12: no flags, a history of one severity assignment to a real
\* value and then one status change to RESOLVED, its earliest patch between
\* the two, and all of them after the creation.
IsReviewed(bug) ==
    /\ bug.flags = << >>
    /\ Len(bug.history) = 2
    /\ bug.history[1].field_name = "severity"
    /\ bug.history[1].added \notin { "n/a", "--" }
    /\ bug.history[2].field_name = "status"
    /\ bug.history[2].added = "RESOLVED"
    /\ PatchTimes(bug) # { }
    /\ \E t2 \in PatchTimes(bug) :
          /\ \A t \in PatchTimes(bug) : t2 <= t
          /\ bug.creation_time < bug.history[1].when
          /\ bug.history[1].when < t2
          /\ t2 < bug.history[2].when

\* The four transitions C12 lists, the first one UNCONFIRMED if the bug was
\* UNCONFIRMED before it was resolved and CONFIRMED if not.
ReviewedTransitions(bug) ==
    LET created == IF bug.history[2].removed = "UNCONFIRMED"
                   THEN "UNCONFIRMED" ELSE "CONFIRMED"
        t2 == CHOOSE t2 \in PatchTimes(bug) : \A t \in PatchTimes(bug) : t2 <= t
    IN  << << bug.creation_time, created, "NOTHING" >>,
           << bug.history[1].when, "TRIAGED", created >>,
           << t2, "IN_REVIEW", "TRIAGED" >>,
           << bug.history[2].when, "RESOLVED", "IN_REVIEW" >> >>

IsResolvedUnconfirmed(bug) ==
    /\ bug.flags = << >>
    /\ bug.attachments = << >>
    /\ Len(bug.history) = 1
    /\ bug.history[1].field_name = "status"
    /\ bug.history[1].removed = "UNCONFIRMED"
    /\ bug.history[1].added = "RESOLVED"

\* The two transitions C13 lists.
ResolvedUnconfirmedTransitions(bug) ==
    << << bug.creation_time, "UNCONFIRMED", "NOTHING" >>,
       << bug.history[1].when, "RESOLVED", "UNCONFIRMED" >> >>

\* C13 as stated: every bug resolved straight from UNCONFIRMED commits
\* exactly the two transitions, whatever its component.
C13_TwoTransitions ==
    (TookBug /\ IsResolvedUnconfirmed(TakenBug)) =>
        (raised = "" /\ committed = ResolvedUnconfirmedTransitions(TakenBug))

\* C13: a bug resolved straight from UNCONFIRMED at T, whose component is not
\* Untriaged, commits exactly (creation, UNCONFIRMED, NOTHING) and
\* (T, RESOLVED, UNCONFIRMED).
C13_TwoTransitionsWithComponent ==
    (TookBug /\ IsResolvedUnconfirmed(TakenBug) /\ TakenBug.component # "Untriaged") =>
        (raised = "" /\ committed = ResolvedUnconfirmedTransitions(TakenBug))

\* Such a bug, resolved at the time it was created.
C13_Witness ==
    /\ TookBug
    /\ IsResolvedUnconfirmed(TakenBug)
    /\ TakenBug.component # "Untriaged"
    /\ TakenBug.history[1].when = TakenBug.creation_time
    /\ Len(committed) = 2

\* C14: when get_events and aggregate_events_by_day have run twice on the same
\* bugs with the same filter, the second run returns the events, the dates
\* and the counts per stage that the first returned.
C14_SecondRunReturnsTheSame ==
    /\ (run = 2 /\ Returned) => events = first.events
    /\ (run = 2 /\ pc = "done") =>
          (dates = first.dates /\ status_by_day = first.status_by_day)

\* A second run that has returned several events over several days.
C14_Witness ==
    /\ run = 2
    /\ pc = "done"
    /\ Len(events) > 1
    /\ Len(dates) > 1

\* The number of requests pending after the first n entries of the list:
\* what the entries added less what they removed.
RECURSIVE PendingAfter(_, _)
PendingAfter(evs, n) ==
    IF n = 0 THEN 0
    ELSE PendingAfter(evs, n - 1) + Len(evs[n].add) - Len(evs[n].remove)

\* The candidates C15 expects of the entries from n on: PENDING_NEEDINFO for
\* an entry that finds nothing pending and leaves something pending,
\* ANSWERED_NEEDINFO for one that finds something and leaves nothing.
RECURSIVE ExpectedNeedinfo(_, _)
ExpectedNeedinfo(evs, n) ==
    IF n > Len(evs) THEN << >>
    ELSE LET before == PendingAfter(evs, n - 1)
             after == PendingAfter(evs, n)
         IN  (IF before = 0 /\ after > 0
              THEN << << evs[n].time, "PENDING_NEEDINFO" >> >>
              ELSE IF before > 0 /\ after = 0
              THEN << << evs[n].time, "ANSWERED_NEEDINFO" >> >>
              ELSE << >>)
             \o ExpectedNeedinfo(evs, n + 1)

IsNeedinfoCandidate(c) == c[2] \in { "PENDING_NEEDINFO", "ANSWERED_NEEDINFO" }

\* C15: the replay emits for each entry at most one candidate, PENDING when
\* the pending list goes from empty to non-empty and ANSWERED when it goes from
\* non-empty to empty; the candidates alternate, the first being PENDING; they
\* are the needinfo candidates the bug has.
C15_NeedinfoCandidatesAlternate ==
    (TookBug /\ raised = "") =>
        LET emitted == NeedinfoCandidates(needinfo_events).emitted
        IN  /\ emitted = ExpectedNeedinfo(needinfo_events, 1)
            /\ Len(emitted) <= Len(needinfo_events)
            /\ \A p \in 1..Len(emitted) :
                  emitted[p][2] = IF p % 2 = 1 THEN "PENDING_NEEDINFO"
                                  ELSE "ANSWERED_NEEDINFO"
            /\ Len(SelectSeq(bug_events, IsNeedinfoCandidate)) = Len(emitted)
            /\ \A p \in 1..Len(emitted) : Has(bug_events, emitted[p])

\* A bug with an entry that removes every pending request and adds one, for
\* which nothing is emitted, between a PENDING and an ANSWERED candidate.
C15_Witness ==
    /\ TookBug
    /\ raised = ""
    /\ Len(NeedinfoCandidates(needinfo_events).emitted) = 2
    /\ \E n \in 2..Len(needinfo_events) :
          /\ needinfo_events[n].remove # << >>
          /\ needinfo_events[n].add # << >>
          /\ PendingAfter(needinfo_events, n - 1) = Len(needinfo_events[n].remove)
          /\ needinfo_events[n].time > needinfo_events[1].time
          /\ \A c \in { bug_events[q] : q \in 1..Len(bug_events) } :
                IsNeedinfoCandidate(c) => c[1] # needinfo_events[n].time

\* The days of the events the loop of aggregate_events_by_day has been through.
EventDays == { Day(events[p][1]) : p \in 1..(k - 1) }

\* C16: the dates are strictly increasing, they are the distinct days of the
\* events read so far, one snapshot for each and none for any other day, and
\* every stage has as many counts as there are dates.
C16_OneSnapshotPerEventDay ==
    pc \in { "aggregate", "done" } =>
        /\ \A j \in 1..(Len(dates) - 1) : dates[j] < dates[j + 1]
        /\ { dates[j] : j \in 1..Len(dates) } = EventDays
        /\ Len(dates) = Cardinality(EventDays)
        /\ \A s \in Stage : Len(status_by_day[s]) = Len(dates)

\* A finished aggregation over two days, one of them with several events.
C16_Witness ==
    /\ pc = "done"
    /\ Len(dates) = 2
    /\ Len(events) > 2
    /\ \E p \in 1..(Len(events) - 1) : Day(events[p][1]) = Day(events[p + 1][1])

\* C17: the transitions a bug commits form a chain from NOTHING: there is at
\* least one, the first has the previous stage NOTHING, each later one has as
\* previous stage the stage of the one before it, and none goes into NOTHING.
C17_ChainFromNothing ==
    (TookBug /\ raised = "") =>
        /\ Len(committed) >= 1
        /\ committed[1][3] = "NOTHING"
        /\ \A p \in 2..Len(committed) : committed[p][3] = committed[p - 1][2]
        /\ \A p \in 1..Len(committed) : committed[p][2] # "NOTHING"
        /\ last_stage = committed[Len(committed)][2]

\* A bug with a chain of three transitions and a discarded candidate.
C17_Witness ==
    /\ TookBug
    /\ raised = ""
    /\ Len(committed) >= 3
    /\ Len(bug_events) > Len(committed)

\* C19: RESOLVED is absorbing: a transition into RESOLVED is the last one the
\* bug commits, so a bug with a RESOLVED candidate ends in RESOLVED whatever
\* candidates come after it.
C19_ResolvedIsAbsorbing ==
    (TookBug /\ raised = "") =>
        /\ \A p \in 1..Len(committed) :
              committed[p][2] = "RESOLVED" => p = Len(committed)
        /\ (\E q \in 1..Len(bug_events) : bug_events[q][2] = "RESOLVED") =>
              last_stage = "RESOLVED"

\* A bug that was resolved and then reopened, or asked for information.
C19_Witness ==
    /\ TookBug
    /\ raised = ""
    /\ last_stage = "RESOLVED"
    /\ \E q \in 1..(Len(bug_events) - 1) :
          /\ bug_events[q][2] = "RESOLVED"
          /\ bug_events[q + 1][1] > bug_events[q][1]
          /\ bug_events[q + 1][2] \in { "CONFIRMED", "PENDING_NEEDINFO" }

\* The bug has a component change to a component other than Untriaged whose
\* UNCONFIRMED candidate is among the bug's candidates.
HasComponentMoveCandidate(bug, cands) ==
    \E p \in 1..Len(bug.history) :
        /\ bug.history[p].field_name = "component"
        /\ bug.history[p].added # "Untriaged"
        /\ Has(cands, << bug.history[p].when, "UNCONFIRMED" >>)

\* C20: get_events never raises the exception of line 215: a bug whose
\* component is not Untriaged has a NO_COMPONENT candidate only together with
\* the UNCONFIRMED candidate of a component change, and ends in a stage whose
\* ordinal is at least that of UNCONFIRMED.
C20_NoComponentFaultUnreachable ==
    /\ raised # "Exception"
    /\ (TookBug /\ raised = "" /\ TakenBug.component # "Untriaged") =>
          /\ Has(bug_events, << TakenBug.creation_time, "NO_COMPONENT" >>) =>
                HasComponentMoveCandidate(TakenBug, bug_events)
          /\ Ord(last_stage) >= Ord("UNCONFIRMED")

\* A bug with a component, moved to it after it was opened: its chain starts
\* in NO_COMPONENT and leaves it at the move.
C20_Witness ==
    /\ TookBug
    /\ raised = ""
    /\ TakenBug.component # "Untriaged"
    /\ committed[1][2] = "NO_COMPONENT"
    /\ Len(committed) >= 2
    /\ committed[2][2] = "UNCONFIRMED"

\* The chain of transitions bug j commits; none when the filter excludes it.
Chain(j) ==
    IF filter_func(bugs[j]) THEN << >> ELSE BugBody(bugs[j]).committed

\* l holds every element of xs, as many times as xs does.
RECURSIVE ContainsAll(_, _)
ContainsAll(l, xs) ==
    \/ xs = << >>
    \/ Has(l, xs[1]) /\ ContainsAll(ListRemove(l, xs[1]), Tail(xs))

\* l less the elements of xs, one occurrence for each.
RECURSIVE Without(_, _)
Without(l, xs) ==
    IF xs = << >> THEN l ELSE Without(ListRemove(l, xs[1]), Tail(xs))

\* The transitions in rest are, taken together, a prefix of the chain of
\* each of the bugs from j on, and nothing else.
RECURSIVE SplitsIntoPrefixes(_, _)
SplitsIntoPrefixes(rest, j) ==
    IF j > Len(bugs) THEN rest = << >>
    ELSE LET chain == Chain(j)
         IN  \E m \in 0..Len(chain) :
                LET prefix == SubSeq(chain, 1, m)
                IN  /\ m <= Len(rest)
                    /\ ContainsAll(rest, prefix)
                    /\ SplitsIntoPrefixes(Without(rest, prefix), j + 1)

RECURSIVE CounterSum(_)
CounterSum(n) ==
    IF n = 0 THEN 0 ELSE day_status[StageSeq[n]] + CounterSum(n - 1)

\* C18: while aggregate_events_by_day walks the stream of get_events, the
\* events applied so far are a prefix of each bug's chain; the counter of
\* every stage but NOTHING is at least 0, the counter of NOTHING is at most 0,
\* and the counters add up to 0.
C18_AppliedEventsArePrefixes ==
    pc \in { "aggregate", "done" } =>
        /\ SplitsIntoPrefixes(SubSeq(events, 1, k - 1), 1)
        /\ \A s \in Stage \ { "NOTHING" } : day_status[s] >= 0
        /\ day_status["NOTHING"] <= 0
        /\ CounterSum(Len(StageSeq)) = 0

\* Part of the way through a stream in which the transitions of two bugs are
\* interleaved, one bug begun and not finished.
C18_Witness ==
    /\ pc = "aggregate"
    /\ k > 2
    /\ k <= Len(events)
    /\ NumDerived > 1
    /\ events # appended
    /\ day_status["NOTHING"] = -2

====
